---- MODULE Spec2Model ----
(***************************************************************************)
(* Model of the terminal pane's output pipeline (TerminalPane.tsx):        *)
(*   - sanitizeEchoArtifacts: the escape-sequence sanitizer with its       *)
(*     pending partial-OSC buffer,                                         *)
(*   - terminalSnapshots: the size-capped snapshot cache,                  *)
(*   - the mount effect: history / live-data / exit subscriptions, the     *)
(*     one-shot fallback timer, the asynchronous ptyStart and the cleanup. *)
(*                                                                         *)
(* A text is a sequence of characters; a character is a one-element        *)
(* string, except the named control characters below.                      *)
(***************************************************************************)
EXTENDS Integers, Sequences, FiniteSets, TLC

\* ------------------------------------------------------------------ characters

ESC == "ESC"     \* \x1b
BEL == "BEL"     \* \x07
BSL == "BSL"     \* backslash
LBR == "["
RBR == "]"
QM  == "?"
SEMI == ";"
SP  == " "
GT  == ">"
\* A run of RunLen copies of a letter that occurs in no other text of the model:
\* a prefix test or a slice at the granularity of the model's characters agrees
\* with the one at the granularity of the program's characters.
BLK == "BLK"
\* A two-byte character (UTF-8), one UTF-16 code unit.
EAC == "e'"

RunLen == 262144

Digits == {"1", "2"}
Whitespace == {SP}

IsDigit(c) == c \in Digits
IsSpace(c) == c \in Whitespace

\* t.slice(from) with a 0-based index: the characters after the first `from`.
Slice(t, from) == SubSeq(t, from + 1, Len(t))

\* t.slice(0, to)
Take(t, to) == SubSeq(t, 1, to)

\* s.startsWith(p)
StartsWith(s, p) == Len(p) <= Len(s) /\ Take(s, Len(p)) = p

EndsWith(s, p) == Len(p) <= Len(s) /\ Slice(s, Len(s) - Len(p)) = p

RECURSIVE Concat(_)
Concat(ts) == IF ts = << >> THEN << >> ELSE Head(ts) \o Concat(Tail(ts))

\* ------------------------------------------------------------------ sanitizer

\* \d+ from position i (1-based): the position after the digits.
RECURSIVE DigitsEnd(_, _)
DigitsEnd(w, i) ==
  IF i <= Len(w) /\ IsDigit(w[i]) THEN DigitsEnd(w, i + 1) ELSE i

\* (?:;\d+)* from position i, greedy: the position after the last group.
RECURSIVE GroupsEnd(_, _)
GroupsEnd(w, i) ==
  IF i + 1 <= Len(w) /\ w[i] = SEMI /\ IsDigit(w[i + 1])
  THEN GroupsEnd(w, DigitsEnd(w, i + 1))
  ELSE i

\* \d+(?:;\d+)* at position i: the position after the match, 0 when none.
\* The character after a greedy match is no digit and starts no further
\* group, so no shorter match can be continued where the greedy one cannot.
NumListEnd(w, i) ==
  IF i <= Len(w) /\ IsDigit(w[i]) THEN GroupsEnd(w, DigitsEnd(w, i)) ELSE 0

\* /\x1b\[\?\d+(?:;\d+)*c/ at position i: the position after the match, or 0.
DAEnd(w, i) ==
  IF i + 2 <= Len(w) /\ w[i] = ESC /\ w[i + 1] = LBR /\ w[i + 2] = QM
  THEN LET e == NumListEnd(w, i + 3)
       IN IF e # 0 /\ e <= Len(w) /\ w[e] = "c" THEN e + 1 ELSE 0
  ELSE 0

\* working.replace(/\x1b\[\?\d+(?:;\d+)*c/g, '') from position i on.
RECURSIVE StripDA(_, _)
StripDA(w, i) ==
  IF i > Len(w) THEN << >>
  ELSE LET e == DAEnd(w, i)
       IN IF e # 0 THEN StripDA(w, e) ELSE << w[i] >> \o StripDA(w, i + 1)

\* \d+(?:;\d+)*[cR](?=$|\s) with its digits at position s: the position after
\* the match, or 0.
BareEnd(w, s) ==
  LET e == NumListEnd(w, s)
  IN IF e # 0 /\ e <= Len(w) /\ w[e] \in {"c", "R"}
          /\ (e = Len(w) \/ IsSpace(w[e + 1]))
     THEN e + 1 ELSE 0

\* The bare-fragment replacement without its (^|[\s>]) prefix: a fragment is
\* removed wherever it stands.
RECURSIVE StripBareUnanchored(_, _)
StripBareUnanchored(w, i) ==
  IF i > Len(w) THEN << >>
  ELSE LET e == BareEnd(w, i)
       IN IF e # 0 THEN StripBareUnanchored(w, e)
          ELSE << w[i] >> \o StripBareUnanchored(w, i + 1)

\* working.replace(/(^|[\s>])\d+(?:;\d+)*[cR](?=$|\s)/g, '$1') from position i
\* on: ^ is tried first and only at the start of the text; a match keeps its
\* one-character prefix ($1) and the scan resumes after the match.
RECURSIVE StripBare(_, _)
StripBare(w, i) ==
  IF i > Len(w) THEN << >>
  ELSE LET atStart == IF i = 1 THEN BareEnd(w, 1) ELSE 0
           afterPrefix == IF IsSpace(w[i]) \/ w[i] = GT THEN BareEnd(w, i + 1) ELSE 0
       IN IF atStart # 0 THEN StripBare(w, atStart)
          ELSE IF afterPrefix # 0 THEN << w[i] >> \o StripBare(w, afterPrefix)
          ELSE << w[i] >> \o StripBare(w, i + 1)

\* (?:\x07|\x1b\\) first found at or after position j: the position after it,
\* or 0 when there is none.
RECURSIVE TermEnd(_, _)
TermEnd(w, j) ==
  IF j > Len(w) THEN 0
  ELSE IF w[j] = BEL THEN j + 1
  ELSE IF j + 1 <= Len(w) /\ w[j] = ESC /\ w[j + 1] = BSL THEN j + 2
  ELSE TermEnd(w, j + 1)

IsOscStart(w, i) == i + 1 <= Len(w) /\ w[i] = ESC /\ w[i + 1] = RBR

\* working.replace(/\x1b\][\s\S]*?(?:\x07|\x1b\\)/g, '') from position i on.
RECURSIVE StripOSC(_, _)
StripOSC(w, i) ==
  IF i > Len(w) THEN << >>
  ELSE LET e == IF IsOscStart(w, i) THEN TermEnd(w, i + 2) ELSE 0
       IN IF e # 0 THEN StripOSC(w, e) ELSE << w[i] >> \o StripOSC(w, i + 1)

\* working.lastIndexOf('\x1b]') as a 1-based position, 0 for -1.
LastOscStart(w) ==
  LET starts == {i \in 1..Len(w) : IsOscStart(w, i)}
  IN IF starts = {} THEN 0 ELSE CHOOSE i \in starts : \A j \in starts : j <= i

\* The trailing sequence is kept for the next chunk but not cut off the text.
KeepTrailingOscNoTrim(w) ==
  LET lastOscStart == LastOscStart(w)
  IN IF lastOscStart # 0 /\ TermEnd(Slice(w, lastOscStart - 1), 1) = 0
     THEN [text |-> w, pending |-> Slice(w, lastOscStart - 1)]
     ELSE [text |-> w, pending |-> << >>]

\* The trailing, incomplete OSC sequence is kept for the next chunk.
KeepTrailingOsc(w) ==
  LET lastOscStart == LastOscStart(w)
  IN IF lastOscStart # 0 /\ TermEnd(Slice(w, lastOscStart - 1), 1) = 0
     THEN [text |-> Take(w, lastOscStart - 1), pending |-> Slice(w, lastOscStart - 1)]
     ELSE [text |-> w, pending |-> << >>]

\* sanitizeEchoArtifacts(chunk) with pendingOscRef.current = pending: the text
\* returned and the new pendingOscRef.current.  The string operations of the
\* try block cannot throw, so the catch branch is not a behaviour.
sanitizeEchoArtifacts(pending, chunk) ==
  KeepTrailingOsc(StripOSC(StripBare(StripDA(pending \o chunk, 1), 1), 1))

\* ------------------------------------------------------------------ snapshot cache

SNAPSHOT_LIMIT_BYTES == 512 * 1024

CharBytes(c) == IF c = BLK THEN RunLen ELSE IF c = EAC THEN 2 ELSE 1

\* textEncoder.encode(text).length
RECURSIVE encodeBytes(_)
encodeBytes(text) ==
  IF text = << >> THEN 0 ELSE CharBytes(Head(text)) + encodeBytes(Tail(text))

NoEntry == [chunks |-> << >>, bytes |-> -1]

\* Eviction that stops at two fragments instead of one.
RECURSIVE EvictKeepsTwo(_)
EvictKeepsTwo(entry) ==
  IF entry.bytes > SNAPSHOT_LIMIT_BYTES /\ Len(entry.chunks) > 2
  THEN EvictKeepsTwo([chunks |-> Tail(entry.chunks),
                      bytes |-> entry.bytes - Head(entry.chunks).bytes])
  ELSE entry

\* Eviction that forgets to lower the running total.
RECURSIVE EvictNoDecrement(_)
EvictNoDecrement(entry) ==
  IF entry.bytes > SNAPSHOT_LIMIT_BYTES /\ Len(entry.chunks) > 1
  THEN EvictNoDecrement([chunks |-> Tail(entry.chunks), bytes |-> entry.bytes])
  ELSE entry

\* Eviction from the newest end (pop instead of shift).
RECURSIVE EvictNewest(_)
EvictNewest(entry) ==
  IF entry.bytes > SNAPSHOT_LIMIT_BYTES /\ Len(entry.chunks) > 1
  THEN EvictNewest([chunks |-> SubSeq(entry.chunks, 1, Len(entry.chunks) - 1),
                    bytes |-> entry.bytes
                                - entry.chunks[Len(entry.chunks)].bytes])
  ELSE entry

\* The while loop of appendSnapshotChunk.
RECURSIVE EvictOldest(_)
EvictOldest(entry) ==
  IF entry.bytes > SNAPSHOT_LIMIT_BYTES /\ Len(entry.chunks) > 1
  THEN EvictOldest([chunks |-> Tail(entry.chunks),
                    bytes |-> entry.bytes - Head(entry.chunks).bytes])
  ELSE entry

\* appendSnapshotChunk(id, text) on the map `snaps`: the map afterwards.
appendSnapshotChunk(snaps, id, text) ==
  IF text = << >> THEN snaps
  ELSE LET entry == IF snaps[id] = NoEntry THEN [chunks |-> << >>, bytes |-> 0]
                    ELSE snaps[id]
           chunk == [text |-> text, bytes |-> encodeBytes(text)]
       IN IF chunk.bytes = 0 THEN snaps
          ELSE [snaps EXCEPT ![id] =
                  EvictOldest([chunks |-> Append(entry.chunks, chunk),
                               bytes |-> entry.bytes + chunk.bytes])]

RECURSIVE JoinTexts(_)
JoinTexts(chunks) ==
  IF chunks = << >> THEN << >> ELSE Head(chunks).text \o JoinTexts(Tail(chunks))

\* getSnapshotText(id)
getSnapshotText(snaps, id) ==
  IF snaps[id] = NoEntry THEN << >>
  ELSE IF Len(snaps[id].chunks) = 1 THEN snaps[id].chunks[1].text
  ELSE JoinTexts(snaps[id].chunks)

\* A clear that empties the whole map.
clearSnapshotAll(snaps, id) == [i \in DOMAIN snaps |-> NoEntry]

\* clearSnapshot(id)
clearSnapshot(snaps, id) == [snaps EXCEPT ![id] = NoEntry]

\* ------------------------------------------------------------------ the mount effect

\* handleIncoming without the de-duplication against the cached text.
handleIncomingNoDedup(snaps, id, pending, viaFallback, data, isHistory) ==
  LET r == sanitizeEchoArtifacts(pending, data)
  IN IF r.text = << >>
     THEN [pending |-> r.pending, writes |-> << >>, snaps |-> snaps]
     ELSE [pending |-> r.pending, writes |-> << r.text >>,
           snaps |-> appendSnapshotChunk(snaps, id, r.text)]

\* handleIncoming that de-duplicates live data as well as history.
handleIncomingDedupAll(snaps, id, pending, viaFallback, data, isHistory) ==
  LET r == sanitizeEchoArtifacts(pending, data)
      sanitized == r.text
      cached == getSnapshotText(snaps, id)
  IN IF sanitized = << >>
     THEN [pending |-> r.pending, writes |-> << >>, snaps |-> snaps]
     ELSE IF viaFallback /\ cached # << >> /\ StartsWith(sanitized, cached)
     THEN LET diff == Slice(sanitized, Len(cached))
          IN IF diff # << >>
             THEN [pending |-> r.pending, writes |-> << diff >>,
                   snaps |-> appendSnapshotChunk(snaps, id, diff)]
             ELSE [pending |-> r.pending, writes |-> << >>, snaps |-> snaps]
     ELSE [pending |-> r.pending, writes |-> << sanitized >>,
           snaps |-> appendSnapshotChunk(snaps, id, sanitized)]

\* A handler that writes the rest of a replayed history chunk without
\* appending it.
handleIncomingDiffNotAppended(snaps, id, pending, viaFallback, data, isHistory) ==
  LET r == sanitizeEchoArtifacts(pending, data)
      sanitized == r.text
      cached == getSnapshotText(snaps, id)
  IN IF sanitized = << >>
     THEN [pending |-> r.pending, writes |-> << >>, snaps |-> snaps]
     ELSE IF isHistory /\ viaFallback /\ cached # << >> /\ StartsWith(sanitized, cached)
     THEN LET diff == Slice(sanitized, Len(cached))
          IN [pending |-> r.pending,
              writes |-> IF diff # << >> THEN << diff >> ELSE << >>,
              snaps |-> snaps]
     ELSE [pending |-> r.pending, writes |-> << sanitized >>,
           snaps |-> appendSnapshotChunk(snaps, id, sanitized)]

\* handleIncoming(data, isHistory) of session `id`, with pendingOscRef.current =
\* pending and historyReplayedViaFallback = viaFallback: the new pending buffer,
\* the texts passed to term.write, and the snapshot map afterwards.
handleIncoming(snaps, id, pending, viaFallback, data, isHistory) ==
  LET r == sanitizeEchoArtifacts(pending, data)
      sanitized == r.text
      cached == getSnapshotText(snaps, id)
  IN IF sanitized = << >>
     THEN [pending |-> r.pending, writes |-> << >>, snaps |-> snaps]
     ELSE IF isHistory /\ viaFallback /\ cached # << >> /\ StartsWith(sanitized, cached)
     THEN LET diff == Slice(sanitized, Len(cached))
          IN IF diff # << >>
             THEN [pending |-> r.pending, writes |-> << diff >>,
                   snaps |-> appendSnapshotChunk(snaps, id, diff)]
             ELSE [pending |-> r.pending, writes |-> << >>, snaps |-> snaps]
     ELSE [pending |-> r.pending, writes |-> << sanitized >>,
           snaps |-> appendSnapshotChunk(snaps, id, sanitized)]

\* A fallback timer that does not look at historyReceived.
fallbackReplayIgnoresHistory(snaps, id, received) ==
  LET cached == getSnapshotText(snaps, id)
  IN IF cached # << >>
     THEN [replayed |-> TRUE, writes |-> << cached >>]
     ELSE [replayed |-> FALSE, writes |-> << >>]

\* A timer that flags the replay also when there is no cached text to replay.
fallbackReplayFlagsEmpty(snaps, id, received) ==
  LET cached == getSnapshotText(snaps, id)
  IN IF ~received
     THEN [replayed |-> TRUE, writes |-> IF cached # << >> THEN << cached >> ELSE << >>]
     ELSE [replayed |-> FALSE, writes |-> << >>]

\* The body of the fallback timer's callback: whether the cached text is
\* replayed, and the texts passed to term.write.
fallbackReplay(snaps, id, received) ==
  LET cached == getSnapshotText(snaps, id)
  IN IF ~received /\ cached # << >>
     THEN [replayed |-> TRUE, writes |-> << cached >>]
     ELSE [replayed |-> FALSE, writes |-> << >>]

EARLY_EXIT_MS == 1500

\* What the effect subscribes to: the history channel is optional
\* (onPtyHistory?.), data and exit are not, and the fallback timer is armed.
Subscriptions(hasHistory) ==
  (IF hasHistory THEN {"history"} ELSE {}) \cup {"data", "exit", "timer"}

\* What a disposer of disposeFns releases.
Releases(fn) ==
  CASE fn = "offHistory" -> {"history"}
    [] fn = "offData" -> {"data"}
    [] fn = "offExit" -> {"exit"}
    [] fn = "clearTimeout" -> {"timer"}
    [] OTHER -> {}

\* disposeFns.current after the pushes of the effect.
DisposeFns(hasHistory) ==
  << "keyDisp" >> \o (IF hasHistory THEN << "offHistory" >> ELSE << >>)
    \o << "offData", "offExit", "keyDisp2", "resizeObserver", "clearTimeout" >>

\* disposeFns.current.forEach((fn) => fn()) on the subscriptions `active`.
RunDisposers(fns, active) ==
  active \ UNION {Releases(fns[i]) : i \in 1..Len(fns)}

\* A cleanup with the keepAlive test inverted.
CleanupSnapshotsInverted(snaps, id, ka) ==
  IF ka THEN clearSnapshot(snaps, id) ELSE snaps

\* The snapshot map after the cleanup's `if (!keepAlive) clearSnapshot(id)`.
CleanupSnapshots(snaps, id, ka) == IF ~ka THEN clearSnapshot(snaps, id) ELSE snaps

\* The line term.writeln renders when ptyStart reports or throws a failure.
ErrLine == << "ERRLINE" >>

\* What the continuation did: the lines written with term.writeln, the
\* callbacks invoked, in order (cb is the last of them), and whether an
\* exception left the async function.
StartOutcome(writes, calls, escaped) ==
  [writes |-> writes, cb |-> calls[Len(calls)], calls |-> calls, escaped |-> escaped]

\* A continuation whose callbacks are not wrapped in a try/catch of their own:
\* a failing callback of the try block lands in the outer catch, a failing
\* callback of the catch block leaves the function.
startContinuationUnguarded(res, cbThrows) ==
  CASE res = "ok" ->
         IF cbThrows THEN StartOutcome(<< ErrLine >>, << "success", "error" >>, TRUE)
         ELSE StartOutcome(<< >>, << "success" >>, FALSE)
    [] res = "notok" ->
         IF cbThrows THEN StartOutcome(<< ErrLine, ErrLine >>, << "error", "error" >>, TRUE)
         ELSE StartOutcome(<< ErrLine >>, << "error" >>, FALSE)
    [] OTHER -> StartOutcome(<< ErrLine >>, << "error" >>, cbThrows)

\* The continuation of `await ptyStart(...)` for a result that is ok, not ok,
\* or an exception, with callbacks that complete or throw: every callback is
\* called inside a try/catch of its own, so its failure changes nothing.
startContinuation(res, cbThrows) ==
  CASE res = "ok" -> StartOutcome(<< >>, << "success" >>, FALSE)
    [] res = "notok" -> StartOutcome(<< ErrLine >>, << "error" >>, FALSE)
    [] OTHER -> StartOutcome(<< ErrLine >>, << "error" >>, FALSE)

\* An exit handler that also takes an exit at exactly the limit for early.
exitHandlerInclusive(elapsed) == IF elapsed <= EARLY_EXIT_MS THEN "error" ELSE "none"

\* The exit handler: the callback invoked for an exit `elapsed` ms after start.
exitHandler(elapsed) == IF elapsed < EARLY_EXIT_MS THEN "error" ELSE "none"

\* ------------------------------------------------------------------ resize

\* The cols and rows props, at their defaults.
cols == 80
rows == 24

Max(a, b) == IF a >= b THEN a ELSE b

TermSize(c, r) == [cols |-> c, rows |-> r]

\* The size handleResize computes from the container's bounding rectangle.
ComputedSize(width, height) ==
  TermSize(Max(20, width \div 9), Max(10, height \div 17))

\* handleResize with a Terminal of size `size` in a container of
\* width x height: the Terminal's size afterwards and whether
\* termRef.current.resize and ptyResize were called.
handleResize(size, width, height) ==
  LET new == ComputedSize(width, height)
  IN IF new.cols # cols \/ new.rows # rows
     THEN [size |-> new, issued |-> TRUE]
     ELSE [size |-> size, issued |-> FALSE]

\* ------------------------------------------------------------------ focus registry

\* registry.get(id) of an id without an entry, and an omitted handler argument.
NoHandler == "undefined"

\* The focus handlers: functions, one of which throws when invoked.
FocusHandlers == {"focusA", "focusB", "focusFails"}

\* A handler argument that is not a function.
NotAFunction == "notAFunction"

IsFunction(h) == h \in FocusHandlers

HandlerThrows(h) == h = "focusFails"

\* The ids handlers are registered for; "" is the id that `!id` rejects.
FocusIds == {"t1", "t2", "t3"}
NoId == ""

\* A predicate of focusTerminalMatching, by what it does for the entry of each
\* id: it returns true ("yes"), returns false ("no") or throws ("throws").
PredicateOutcomes == {"yes", "no", "throws"}
Predicates == [FocusIds -> PredicateOutcomes]

\* The registry is a Map: its entries in insertion order.
RegIndex(reg, id) ==
  LET at == {k \in 1..Len(reg) : reg[k].id = id}
  IN IF at = {} THEN 0 ELSE CHOOSE k \in at : TRUE

\* registry.get(id)
registryGet(reg, id) ==
  IF RegIndex(reg, id) = 0 THEN NoHandler ELSE reg[RegIndex(reg, id)].handler

\* registry.set(id, handler): the value of an existing key is replaced where
\* the key stands, a new key is added at the end.
registrySet(reg, id, handler) ==
  IF RegIndex(reg, id) # 0
  THEN [reg EXCEPT ![RegIndex(reg, id)].handler = handler]
  ELSE Append(reg, [id |-> id, handler |-> handler])

\* registry.delete(id)
registryDelete(reg, id) ==
  LET keep(e) == e.id # id IN SelectSeq(reg, keep)

\* A register that re-inserts an overwritten id at the end.
registerMovesToEnd(reg, id, handler) ==
  IF id = NoId \/ ~IsFunction(handler) THEN reg
  ELSE Append(registryDelete(reg, id), [id |-> id, handler |-> handler])

registerTerminalFocus(reg, id, handler) ==
  IF id = NoId \/ ~IsFunction(handler) THEN reg
  ELSE registrySet(reg, id, handler)

\* An unregister that does not compare the handler.
unregisterAlways(reg, id, handler) ==
  IF id = NoId THEN reg ELSE registryDelete(reg, id)

unregisterTerminalFocus(reg, id, handler) ==
  IF id = NoId THEN reg
  ELSE IF handler = NoHandler THEN registryDelete(reg, id)
  ELSE IF registryGet(reg, id) = handler THEN registryDelete(reg, id)
  ELSE reg

\* What a focus call did: the value returned, the entries whose handler was
\* invoked, in order, and whether an exception left the call.
FocusResult(ret, invoked, escaped) ==
  [ret |-> ret, invoked |-> invoked, escaped |-> escaped]

focusTerminalById(reg, id) ==
  LET handler == registryGet(reg, id)
  IN IF handler = NoHandler THEN FocusResult(FALSE, << >>, FALSE)
     ELSE IF HandlerThrows(handler)
     THEN FocusResult(FALSE, << [id |-> id, handler |-> handler] >>, FALSE)
     ELSE FocusResult(TRUE, << [id |-> id, handler |-> handler] >>, FALSE)

\* A scan whose first failure ends it.
RECURSIVE ScanEntriesStopsAtFailure(_, _, _)
ScanEntriesStopsAtFailure(reg, i, pred) ==
  IF i > Len(reg) THEN FocusResult(FALSE, << >>, FALSE)
  ELSE CASE pred[reg[i].id] = "throws" -> FocusResult(FALSE, << >>, FALSE)
         [] pred[reg[i].id] = "no" -> ScanEntriesStopsAtFailure(reg, i + 1, pred)
         [] HandlerThrows(reg[i].handler) -> FocusResult(FALSE, << reg[i] >>, FALSE)
         [] OTHER -> FocusResult(TRUE, << reg[i] >>, FALSE)

\* The loop of focusTerminalMatching from entry i on: an exception of the
\* predicate or of the handler is caught and the loop goes on.
RECURSIVE ScanEntries(_, _, _)
ScanEntries(reg, i, pred) ==
  IF i > Len(reg) THEN FocusResult(FALSE, << >>, FALSE)
  ELSE CASE pred[reg[i].id] = "throws" -> ScanEntries(reg, i + 1, pred)
         [] pred[reg[i].id] = "no" -> ScanEntries(reg, i + 1, pred)
         [] HandlerThrows(reg[i].handler) ->
              [ScanEntries(reg, i + 1, pred) EXCEPT !.invoked = << reg[i] >> \o @]
         [] OTHER -> FocusResult(TRUE, << reg[i] >>, FALSE)

focusTerminalMatching(reg, pred) == ScanEntries(reg, 1, pred)

\* ------------------------------------------------------------------ state

\* The keys of the snapshot map, and the sessions the pane is mounted for.
Ids == {"t1", "t2"}
Sessions == {"t1"}

MaxMounts == 2
MaxPtyEvents == 2

VARIABLES
  terminalSnapshots,  \* id -> SnapshotEntry, NoEntry when the map has no entry
  mounted,            \* id -> the effect has run and its cleanup has not
  keepAlive,          \* id -> the keepAlive prop of the current mount
  pendingOscRef,      \* id -> pendingOscRef.current
  historyReceived,    \* id -> the effect's historyReceived
  viaFallback,        \* id -> the effect's historyReplayedViaFallback
  subs,               \* id -> the live subscriptions and the armed timer
  disposeFns,         \* id -> disposeFns.current
  sink,               \* id -> the texts written to the Terminal of the latest mount
  staleWrites,        \* id -> number of lines written to the Terminal of an earlier mount
  gen,                \* id -> number of mounts so far
  pendingStarts,      \* id -> mounts whose ptyStart has not resolved
  ev,                 \* the last step: operation, session, chunk, callback
  nPty,               \* number of PTY events delivered so far
  appendedSince,      \* id -> concatenation of the texts appended since the last clear
  lastAppended,       \* id -> the last non-empty text appended since the last clear
  nOps,               \* number of cache operations so far
  sanText,            \* the text fed to a stand-alone sanitizer
  sanCut,             \* where it is cut into two chunks
  sanPc,              \* how many of the two calls were made
  sanOut,             \* the texts the calls returned
  sanPending,         \* the stand-alone sanitizer's pendingOscRef.current
  ptyOut,             \* number of characters the PTY has put out so far
  attachAt,           \* ptyOut when the latest mount attached
  histDue,            \* the history of the latest mount is still to be delivered
  registry,           \* the focus registry: its entries in insertion order
  firstOrder,         \* the registered ids, by the register call that added the entry
  installOrder,       \* the registered ids, by the register call that set the handler
  fev,                \* the last focus-registry call and what it did
  detail,             \* more of the last step: elapsed time of an exit, result of a start
  termSize,           \* the size of the Terminal of the latest mount
  ptySize,            \* the size the PTY was last started with or resized to
  observed,           \* the container size handleResize last read in this mount
  issued,             \* the last handleResize called resize and ptyResize
  sizeBefore          \* the Terminal's size before the last handleResize

paneVars == << mounted, keepAlive, pendingOscRef, historyReceived, viaFallback, subs,
               disposeFns, sink, staleWrites, gen, pendingStarts >>
cacheVars == << appendedSince, lastAppended, nOps >>
sanVars == << sanText, sanCut, sanPc, sanOut, sanPending >>
ptyVars == << ptyOut, attachAt, histDue >>
focusVars == << registry, firstOrder, installOrder, fev >>
resizeVars == << termSize, ptySize, observed, issued, sizeBefore >>

vars == << terminalSnapshots, paneVars, ev, nPty, cacheVars, sanVars, ptyVars,
           focusVars, detail, resizeVars >>

NoText == << >>

Event(op, id, chunk, cb) == [op |-> op, id |-> id, chunk |-> chunk, cb |-> cb]

\* The chunks the PTY host delivers: plain text, an unterminated OSC start
\* (which sanitizes to the empty text) and its terminator followed by text.
Chunks ==
  { << "a" >>, << "a", "b" >>, << ESC, RBR, "t" >>, << BEL, "b" >> }

ExitTimes == {1200, 1499, 1500, 2000}

StartResults == {"ok", "notok", "throw"}

NoDetail ==
  [elapsed |-> -1, res |-> "none", cbThrows |-> FALSE, calls |-> << >>, escaped |-> FALSE]

RECURSIVE SumOver(_, _)
SumOver(f, S) ==
  IF S = {} THEN 0
  ELSE LET x == CHOOSE y \in S : TRUE IN f[x] + SumOver(f, S \ {x})

InitPane ==
  /\ terminalSnapshots = [i \in Ids |-> NoEntry]
  /\ mounted = [i \in Sessions |-> FALSE]
  /\ keepAlive = [i \in Sessions |-> FALSE]
  /\ pendingOscRef = [i \in Sessions |-> << >>]
  /\ historyReceived = [i \in Sessions |-> FALSE]
  /\ viaFallback = [i \in Sessions |-> FALSE]
  /\ subs = [i \in Sessions |-> {}]
  /\ disposeFns = [i \in Sessions |-> << >>]
  /\ sink = [i \in Sessions |-> << >>]
  /\ staleWrites = [i \in Sessions |-> 0]
  /\ gen = [i \in Sessions |-> 0]
  /\ pendingStarts = [i \in Sessions |-> {}]
  /\ ev = Event("init", "t1", NoText, "none")
  /\ nPty = 0
  /\ detail = NoDetail

InitCache ==
  /\ appendedSince = [i \in Ids |-> << >>]
  /\ lastAppended = [i \in Ids |-> << >>]
  /\ nOps = 0

InitSan ==
  /\ sanText = << >>
  /\ sanCut = 0
  /\ sanPc = 0
  /\ sanOut = << >>
  /\ sanPending = << >>

InitPty ==
  /\ ptyOut = 0
  /\ attachAt = 0
  /\ histDue = FALSE

NoPredicate == [i \in FocusIds |-> "no"]

FocusEvent(op, id, handler, pred, result) ==
  [op |-> op, id |-> id, handler |-> handler, pred |-> pred, result |-> result]

InitFocus ==
  /\ registry = << >>
  /\ firstOrder = << >>
  /\ installOrder = << >>
  /\ fev = FocusEvent("init", NoId, NoHandler, NoPredicate, FocusResult(FALSE, << >>, FALSE))

\* No Terminal, no PTY and no container size read yet.
NoSize == TermSize(0, 0)
NotObserved == [width |-> -1, height |-> -1]

InitResize ==
  /\ termSize = NoSize
  /\ ptySize = NoSize
  /\ observed = NotObserved
  /\ issued = FALSE
  /\ sizeBefore = NoSize

Init == InitPane /\ InitCache /\ InitSan /\ InitPty /\ InitFocus /\ InitResize

\* The effect runs: a new Terminal, the subscriptions, the timer, ptyStart.
Mount(s, ka, hasHistory) ==
  /\ ~mounted[s]
  /\ SumOver(gen, Sessions) < MaxMounts
  /\ mounted' = [mounted EXCEPT ![s] = TRUE]
  /\ keepAlive' = [keepAlive EXCEPT ![s] = ka]
  /\ pendingOscRef' = [pendingOscRef EXCEPT ![s] = << >>]
  /\ historyReceived' = [historyReceived EXCEPT ![s] = FALSE]
  /\ viaFallback' = [viaFallback EXCEPT ![s] = FALSE]
  /\ subs' = [subs EXCEPT ![s] = Subscriptions(hasHistory)]
  /\ disposeFns' = [disposeFns EXCEPT ![s] = DisposeFns(hasHistory)]
  /\ sink' = [sink EXCEPT ![s] = << >>]
  /\ gen' = [gen EXCEPT ![s] = @ + 1]
  /\ pendingStarts' = [pendingStarts EXCEPT ![s] = @ \cup {gen[s] + 1}]
  /\ ev' = Event("mount", s, NoText, "none")
  /\ UNCHANGED << terminalSnapshots, staleWrites >>

\* The history callback.
HistoryHandler(s, data) ==
  /\ "history" \in subs[s]
  /\ LET r == handleIncoming(terminalSnapshots, s, pendingOscRef[s], viaFallback[s],
                             data, TRUE)
     IN /\ historyReceived' = [historyReceived EXCEPT ![s] = TRUE]
        /\ pendingOscRef' = [pendingOscRef EXCEPT ![s] = r.pending]
        /\ sink' = [sink EXCEPT ![s] = @ \o r.writes]
        /\ terminalSnapshots' = r.snaps
  /\ ev' = Event("history", s, data, "none")
  /\ UNCHANGED << mounted, keepAlive, viaFallback, subs, disposeFns, staleWrites,
                  gen, pendingStarts >>

\* The live-data callback.
DataHandler(s, data) ==
  /\ "data" \in subs[s]
  /\ LET r == handleIncoming(terminalSnapshots, s, pendingOscRef[s], viaFallback[s],
                             data, FALSE)
     IN /\ pendingOscRef' = [pendingOscRef EXCEPT ![s] = r.pending]
        /\ sink' = [sink EXCEPT ![s] = @ \o r.writes]
        /\ terminalSnapshots' = r.snaps
  /\ ev' = Event("data", s, data, "none")
  /\ UNCHANGED << mounted, keepAlive, historyReceived, viaFallback, subs, disposeFns,
                  staleWrites, gen, pendingStarts >>

\* The exit callback.
ExitHandler(s, elapsed) ==
  /\ "exit" \in subs[s]
  /\ ev' = Event("exit", s, NoText, exitHandler(elapsed))
  /\ detail' = [NoDetail EXCEPT !.elapsed = elapsed]
  /\ UNCHANGED << terminalSnapshots, paneVars >>

\* The one-shot fallback timer fires.
TimerHandler(s) ==
  /\ "timer" \in subs[s]
  /\ LET r == fallbackReplay(terminalSnapshots, s, historyReceived[s])
     IN /\ viaFallback' = [viaFallback EXCEPT ![s] = @ \/ r.replayed]
        /\ sink' = [sink EXCEPT ![s] = @ \o r.writes]
  /\ subs' = [subs EXCEPT ![s] = @ \ {"timer"}]
  /\ ev' = Event("timer", s, NoText, "none")
  /\ UNCHANGED << terminalSnapshots, mounted, keepAlive, pendingOscRef,
                  historyReceived, disposeFns, staleWrites, gen, pendingStarts >>

\* ptyStart of mount g resolves and its continuation runs, on the Terminal
\* that mount created.
StartContinues(s, g, res, cbThrows) ==
  /\ g \in pendingStarts[s]
  /\ pendingStarts' = [pendingStarts EXCEPT ![s] = @ \ {g}]
  /\ LET r == startContinuation(res, cbThrows)
     IN /\ IF g = gen[s]
           THEN /\ sink' = [sink EXCEPT ![s] = @ \o r.writes]
                /\ UNCHANGED staleWrites
           ELSE /\ staleWrites' = [staleWrites EXCEPT ![s] = @ + Len(r.writes)]
                /\ UNCHANGED sink
        /\ ev' = Event("start", s, NoText, r.cb)
        /\ detail' = [NoDetail EXCEPT !.res = res, !.cbThrows = cbThrows,
                                      !.calls = r.calls, !.escaped = r.escaped]
  /\ UNCHANGED << terminalSnapshots, mounted, keepAlive, pendingOscRef,
                  historyReceived, viaFallback, subs, disposeFns, gen >>

\* The effect's cleanup.
CleanupEffect(s) ==
  /\ mounted[s]
  /\ terminalSnapshots' = CleanupSnapshots(terminalSnapshots, s, keepAlive[s])
  /\ subs' = [subs EXCEPT ![s] = RunDisposers(disposeFns[s], @)]
  /\ disposeFns' = [disposeFns EXCEPT ![s] = << >>]
  /\ mounted' = [mounted EXCEPT ![s] = FALSE]
  /\ ev' = Event("cleanup", s, NoText, "none")
  /\ UNCHANGED << keepAlive, pendingOscRef, historyReceived, viaFallback, sink,
                  staleWrites, gen, pendingStarts >>

\* ------------------------------------------------------------------ Spec: one pane

Rest == << cacheVars, sanVars, ptyVars, focusVars, resizeVars >>

DoMount ==
  \E s \in Sessions, ka \in BOOLEAN, h \in BOOLEAN :
    Mount(s, ka, h) /\ detail' = NoDetail /\ UNCHANGED << nPty, Rest >>

OnPtyHistory ==
  \E s \in Sessions, d \in Chunks :
    /\ nPty < MaxPtyEvents /\ nPty' = nPty + 1 /\ HistoryHandler(s, d)
    /\ detail' = NoDetail /\ UNCHANGED Rest

OnPtyData ==
  \E s \in Sessions, d \in Chunks :
    /\ nPty < MaxPtyEvents /\ nPty' = nPty + 1 /\ DataHandler(s, d)
    /\ detail' = NoDetail /\ UNCHANGED Rest

OnPtyExit ==
  \E s \in Sessions, t \in ExitTimes :
    nPty < MaxPtyEvents /\ nPty' = nPty + 1 /\ ExitHandler(s, t) /\ UNCHANGED Rest

FallbackTimer ==
  \E s \in Sessions : TimerHandler(s) /\ detail' = NoDetail /\ UNCHANGED << nPty, Rest >>

StartResolves ==
  \E s \in Sessions, g \in 1..MaxMounts, res \in StartResults, cbThrows \in BOOLEAN :
    StartContinues(s, g, res, cbThrows) /\ UNCHANGED << nPty, Rest >>

Cleanup ==
  \E s \in Sessions : CleanupEffect(s) /\ detail' = NoDetail /\ UNCHANGED << nPty, Rest >>

Next ==
  \/ DoMount
  \/ OnPtyHistory
  \/ OnPtyData
  \/ OnPtyExit
  \/ FallbackTimer
  \/ StartResolves
  \/ Cleanup

Spec == Init /\ [][Next]_vars

\* The text a step writes, as term.write calls: the empty text is no call.
Written(t) == IF t = << >> THEN << >> ELSE << t >>

\* The last fragment of the entry of id is the text t.
LastFragmentIs(snaps, id, t) ==
  /\ snaps[id] # NoEntry
  /\ Len(snaps[id].chunks) >= 1
  /\ snaps[id].chunks[Len(snaps[id].chunks)].text = t

\* C1: after a fallback replay, a history chunk whose sanitized text S starts
\* with the cached text C has exactly the rest of S written and appended
\* (nothing when the rest is empty); any other S is written and appended whole.
FallbackDedup ==
  [][\A s \in Sessions :
       (ev'.op = "history" /\ ev'.id = s /\ viaFallback[s]) =>
         LET S == sanitizeEchoArtifacts(pendingOscRef[s], ev'.chunk).text
             C == getSnapshotText(terminalSnapshots, s)
             W == IF StartsWith(S, C) THEN Slice(S, Len(C)) ELSE S
         IN /\ sink'[s] = sink[s] \o Written(W)
            /\ IF W = << >>
               THEN terminalSnapshots' = terminalSnapshots
               ELSE /\ LastFragmentIs(terminalSnapshots', s, W)
                    /\ EndsWith(C \o W, getSnapshotText(terminalSnapshots', s))
                    /\ terminalSnapshots'["t2"] = terminalSnapshots["t2"]]_vars

\* The fallback replayed "a" and the history chunk "ab" added only "b".
FallbackDedupWitness ==
  /\ ev.op = "history" /\ ev.chunk = << "a", "b" >>
  /\ viaFallback["t1"]
  /\ sink["t1"] = << << "a" >>, << "b" >> >>
  /\ getSnapshotText(terminalSnapshots, "t1") = << "a", "b" >>

\* C2: once a history chunk has come while the timer had not fired, the timer
\* replays nothing and the replayed-via-fallback flag stays false for the
\* rest of the mount, whatever is cached and whatever the chunk sanitized to.
HistoryCancelsFallback ==
  [][\A s \in Sessions :
       /\ ("timer" \in subs'[s] => ~viaFallback'[s])
       /\ (historyReceived[s] /\ ~viaFallback[s] /\ gen'[s] = gen[s])
            => /\ ~viaFallback'[s]
               /\ (ev'.op = "timer" => sink'[s] = sink[s])]_vars

\* The timer fired after a history chunk that sanitized to the empty text,
\* with text in the cache, and nothing was replayed.
HistoryCancelsFallbackWitness ==
  /\ ev.op = "timer"
  /\ historyReceived["t1"]
  /\ getSnapshotText(terminalSnapshots, "t1") # << >>
  /\ sink["t1"] = << >>
  /\ ~viaFallback["t1"]

\* C4: in every state of a mounted pane a live-data chunk whose sanitized
\* text is not empty is written whole and appended whole in the step in
\* which it arrives.
LiveDataNeverGated ==
  [][\A s \in Sessions :
       (ev'.op = "data" /\ ev'.id = s) =>
         LET S == sanitizeEchoArtifacts(pendingOscRef[s], ev'.chunk).text
         IN S # << >> =>
              /\ sink'[s] = Append(sink[s], S)
              /\ LastFragmentIs(terminalSnapshots', s, S)
              /\ EndsWith(getSnapshotText(terminalSnapshots, s) \o S,
                           getSnapshotText(terminalSnapshots', s))]_vars

\* After a fallback replay of "a", the live chunk "a" was written again whole.
LiveDataNeverGatedWitness ==
  /\ ev.op = "data" /\ ev.chunk = << "a" >>
  /\ viaFallback["t1"]
  /\ sink["t1"] = << << "a" >>, << "a" >> >>

\* C8: the cleanup of a pane without keepAlive leaves readAll of its id
\* empty; with keepAlive it leaves the entry as it was.
TeardownClearsSnapshot ==
  [][\A s \in Sessions :
       (ev'.op = "cleanup" /\ ev'.id = s /\ mounted[s]) =>
         IF keepAlive[s]
         THEN terminalSnapshots'[s] = terminalSnapshots[s]
         ELSE getSnapshotText(terminalSnapshots', s) = << >>]_vars

\* The second mount had no keepAlive, wrote a chunk, and its cleanup removed
\* the entry.
TeardownClearsSnapshotWitness ==
  /\ ev.op = "cleanup"
  /\ ~keepAlive["t1"]
  /\ gen["t1"] = 2
  /\ sink["t1"] # << >>
  /\ ~(ErrLine \in {sink["t1"][i] : i \in 1..Len(sink["t1"])})
  /\ terminalSnapshots["t1"] = NoEntry

\* The disposers of the cleanup release every subscription and the timer.
HandlersReleasedAtTeardown ==
  \A s \in Sessions : ~mounted[s] => subs[s] = {}

\* C9: once the cleanup of a pane has run, none of its handlers runs, nothing
\* is written to its sink and nothing is appended to its snapshot.
QuietAfterTeardown ==
  [][\A s \in Sessions :
       (~mounted[s] /\ ~mounted'[s]) =>
         /\ ev'.op \notin {"history", "data", "exit", "timer"}
         /\ sink'[s] = sink[s]
         /\ staleWrites'[s] = staleWrites[s]
         /\ terminalSnapshots'[s] = terminalSnapshots[s]]_vars

\* C16: an exit less than 1500 ms after the start request invokes the
\* start-error callback, an exit 1500 ms or more after it does not, whatever
\* the start call reported: an exit at 1200 ms does, an exit at 2000 ms does not.
EarlyExitDetection ==
  ev.op = "exit" =>
    /\ (ev.cb = "error") = (detail.elapsed < 1500)
    /\ detail.elapsed = 1200 => ev.cb = "error"
    /\ detail.elapsed = 2000 => ev.cb = "none"

\* The start call reported ok, no error line was written, and the exit
\* 1200 ms after the start request invoked the start-error callback.
EarlyExitDetectionWitness ==
  /\ ev.op = "exit" /\ ev.cb = "error" /\ detail.elapsed = 1200
  /\ mounted["t1"] /\ gen["t1"] = 1 /\ pendingStarts["t1"] = {}
  /\ sink["t1"] = << >> /\ staleWrites["t1"] = 0

\* The number of lines the Terminals of session s have received.
LinesWritten(snk, stale, s) == Len(snk[s]) + stale[s]

\* C17: a start that reports a failure or throws writes exactly one error
\* line and invokes the start-error callback once and the success callback
\* not at all; a start that reports ok invokes the success callback and
\* writes no line; no exception leaves the step, also when the callback fails.
StartFailureSurfaced ==
  [][ev'.op = "start" =>
       LET s == ev'.id
           written == LinesWritten(sink', staleWrites', s) - LinesWritten(sink, staleWrites, s)
       IN /\ ~detail'.escaped
          /\ detail'.res \in {"notok", "throw"} =>
               /\ written = 1
               /\ sink'[s] \in {sink[s], sink[s] \o << ErrLine >>}
               /\ detail'.calls = << "error" >>
          /\ detail'.res = "ok" =>
               /\ written = 0
               /\ sink'[s] = sink[s]
               /\ detail'.calls = << "success" >>]_vars

\* The start call threw, the callback failed too, and the mounted pane shows
\* the one error line.
StartFailureSurfacedWitness ==
  /\ ev.op = "start" /\ detail.res = "throw" /\ detail.cbThrows
  /\ detail.calls = << "error" >>
  /\ mounted["t1"] /\ sink["t1"] = << ErrLine >>

\* C19: the timer firing before any history chunk writes the whole cached
\* text once, leaves the snapshot map as it is and sets the replayed flag;
\* with nothing cached it writes nothing and leaves the flag false, and a
\* history chunk that comes while the flag is false is written and appended
\* whole.
FallbackReplayGuarded ==
  [][\A s \in Sessions :
       /\ (ev'.op = "timer" /\ ev'.id = s /\ ~historyReceived[s]) =>
            LET C == getSnapshotText(terminalSnapshots, s)
            IN /\ terminalSnapshots' = terminalSnapshots
               /\ IF C # << >>
                  THEN sink'[s] = Append(sink[s], C) /\ viaFallback'[s]
                  ELSE sink'[s] = sink[s] /\ ~viaFallback'[s]
       /\ (ev'.op = "history" /\ ev'.id = s /\ ~viaFallback[s]) =>
            LET S == sanitizeEchoArtifacts(pendingOscRef[s], ev'.chunk).text
            IN /\ sink'[s] = sink[s] \o Written(S)
               /\ IF S = << >>
                  THEN terminalSnapshots' = terminalSnapshots
                  ELSE LastFragmentIs(terminalSnapshots', s, S)]_vars

\* A kept-alive session was mounted again and the timer replayed the two
\* cached fragments as one text, leaving them cached.
FallbackReplayGuardedWitness ==
  /\ ev.op = "timer"
  /\ viaFallback["t1"] /\ ~historyReceived["t1"]
  /\ sink["t1"] = << << "a", "a", "b" >> >>
  /\ Len(terminalSnapshots["t1"].chunks) = 2
  /\ getSnapshotText(terminalSnapshots, "t1") = << "a", "a", "b" >>

Channels == {"history", "data"}

NoEscape(t) == \A k \in 1..Len(t) : t[k] # ESC

\* C21: a chunk without an escape character that follows a chunk of the other
\* channel is written to the sink whole in the step that processes it,
\* whatever the other channel's chunk left pending (a history chunk after a
\* fallback replay, which is written without the cached text, aside).
ChannelsDoNotShareResidue ==
  [][\A s \in Sessions :
       (/\ ev.op \in Channels /\ ev.id = s
        /\ ev'.op \in Channels /\ ev'.id = s
        /\ ev'.op # ev.op
        /\ gen'[s] = gen[s]
        /\ NoEscape(ev'.chunk)
        /\ ~(ev'.op = "history" /\ viaFallback[s]))
         => sink'[s] = Append(sink[s], ev'.chunk)]_vars

\* C22: a step of a channel handler writes at most one text, never an empty
\* one; it appends that text to the session's snapshot, once, and appends
\* nothing when it writes nothing, as for a chunk that sanitizes to the empty
\* text; the timer's replay write appends nothing.
WritesAndAppendsPaired ==
  [][\A s \in Sessions :
       LET added == Slice(sink'[s], Len(sink[s]))
           before == getSnapshotText(terminalSnapshots, s)
           after == getSnapshotText(terminalSnapshots', s)
       IN /\ (ev'.op \in Channels /\ ev'.id = s) =>
               /\ sink[s] = Take(sink'[s], Len(sink[s]))
               /\ Len(added) <= 1
               /\ IF added = << >>
                  THEN terminalSnapshots' = terminalSnapshots
                  ELSE /\ added[1] # << >>
                       /\ LastFragmentIs(terminalSnapshots', s, added[1])
                       /\ EndsWith(before \o added[1], after)
                       /\ Len(after) >= Len(added[1])
                       /\ Len(after) < Len(before \o added[1])
                            => encodeBytes(before \o added[1]) > SNAPSHOT_LIMIT_BYTES
               /\ sanitizeEchoArtifacts(pendingOscRef[s], ev'.chunk).text = << >>
                    => added = << >>
          /\ (ev'.op = "timer" /\ ev'.id = s) =>
               terminalSnapshots' = terminalSnapshots]_vars

\* A chunk that sanitized to the empty text caused no write and no append;
\* the next chunk had its one text written and appended.
WritesAndAppendsPairedWitness ==
  /\ ev.op = "data" /\ ev.chunk = << BEL, "b" >>
  /\ gen["t1"] = 1 /\ nPty = 2
  /\ sink["t1"] = << << "b" >> >>
  /\ Len(terminalSnapshots["t1"].chunks) = 1
  /\ getSnapshotText(terminalSnapshots, "t1") = << "b" >>

\* C24: a start call that resolves after the cleanup of its mount has run,
\* with any result, has no line written to a Terminal of the session and
\* invokes no callback.
StartQuietAfterTeardown ==
  [][\A s \in Sessions, g \in 1..MaxMounts :
       (/\ ev'.op = "start" /\ ev'.id = s
        /\ g \in pendingStarts[s] /\ g \notin pendingStarts'[s]
        /\ (g < gen[s] \/ ~mounted[s]))
         => /\ LinesWritten(sink', staleWrites', s) = LinesWritten(sink, staleWrites, s)
            /\ detail'.calls = << >>
            /\ ev'.cb = "none"]_vars

\* ------------------------------------------------------------------ SpecCache: the snapshot map alone

MaxCacheOps == 4

\* The texts appended: empty, one byte, a two-byte character, and texts of
\* 256 KiB runs that reach or exceed the cap alone or together.
CacheTexts ==
  { << >>, << "a" >>, << EAC >>, << BLK >>, << BLK, BLK >>, << BLK, BLK, "a" >> }

PaneIdle ==
  UNCHANGED << paneVars, ev, nPty, sanVars, ptyVars, focusVars, detail, resizeVars >>

\* appendSnapshotChunk(id, text), called directly.
CacheAppend ==
  \E id \in Ids, text \in CacheTexts :
    /\ nOps < MaxCacheOps
    /\ nOps' = nOps + 1
    /\ terminalSnapshots' = appendSnapshotChunk(terminalSnapshots, id, text)
    /\ appendedSince' = [appendedSince EXCEPT ![id] = @ \o text]
    /\ lastAppended' = [lastAppended EXCEPT ![id] = IF text = << >> THEN @ ELSE text]
    /\ PaneIdle

\* clearSnapshot(id), called directly.
CacheClear ==
  \E id \in Ids :
    /\ nOps < MaxCacheOps
    /\ nOps' = nOps + 1
    /\ terminalSnapshots' = clearSnapshot(terminalSnapshots, id)
    /\ appendedSince' = [appendedSince EXCEPT ![id] = << >>]
    /\ lastAppended' = [lastAppended EXCEPT ![id] = << >>]
    /\ PaneIdle

NextCache == CacheAppend \/ CacheClear

SpecCache == Init /\ [][NextCache]_vars

RECURSIVE SumBytes(_)
SumBytes(chunks) ==
  IF chunks = << >> THEN 0 ELSE Head(chunks).bytes + SumBytes(Tail(chunks))

HasEntry(id) == terminalSnapshots[id] # NoEntry

\* C5: an entry that holds two or more fragments totals at most 512 KiB; only
\* an entry of exactly one fragment may exceed the cap.
SnapshotCapInvariant ==
  \A id \in Ids :
    HasEntry(id) =>
      LET chunks == terminalSnapshots[id].chunks
          total == encodeBytes(JoinTexts(chunks))
      IN /\ Len(chunks) >= 2 => total <= SNAPSHOT_LIMIT_BYTES
         /\ total > SNAPSHOT_LIMIT_BYTES => Len(chunks) = 1

\* One entry holds two fragments after an eviction, another a single fragment
\* above the cap.
SnapshotCapWitness ==
  /\ HasEntry("t1") /\ Len(terminalSnapshots["t1"].chunks) = 2
  /\ Len(appendedSince["t1"]) > Len(getSnapshotText(terminalSnapshots, "t1"))
  /\ HasEntry("t2") /\ Len(terminalSnapshots["t2"].chunks) = 1
  /\ encodeBytes(getSnapshotText(terminalSnapshots, "t2")) > SNAPSHOT_LIMIT_BYTES

\* C6: the running byte total of every entry is the sum of the byte sizes of
\* the fragments it holds, each the encoded size of its text.
RunningTotalInvariant ==
  \A id \in Ids :
    HasEntry(id) =>
      /\ terminalSnapshots[id].bytes = SumBytes(terminalSnapshots[id].chunks)
      /\ \A i \in 1..Len(terminalSnapshots[id].chunks) :
           terminalSnapshots[id].chunks[i].bytes
             = encodeBytes(terminalSnapshots[id].chunks[i].text)

\* An entry that went through an eviction and holds a multi-byte character.
RunningTotalWitness ==
  \E id \in Ids :
    /\ HasEntry(id)
    /\ Len(appendedSince[id]) > Len(getSnapshotText(terminalSnapshots, id))
    /\ terminalSnapshots[id].bytes = RunLen + 2

\* C7: readAll is a suffix of everything appended since the last clear, it
\* ends with the latest appended text, and it is empty without an entry.
ReadAllSuffixInvariant ==
  \A id \in Ids :
    LET all == getSnapshotText(terminalSnapshots, id)
    IN /\ EndsWith(appendedSince[id], all)
       /\ EndsWith(all, lastAppended[id])
       /\ (~HasEntry(id) => all = << >> /\ appendedSince[id] = << >>)
       /\ (HasEntry(id) => lastAppended[id] # << >>)

\* An eviction dropped the oldest fragments and kept the latest text.
ReadAllSuffixWitness ==
  \E id \in Ids :
    /\ appendedSince[id] = << BLK, BLK, BLK, "a" >>
    /\ getSnapshotText(terminalSnapshots, id) = << BLK, "a" >>
    /\ lastAppended[id] = << "a" >>

\* ------------------------------------------------------------------ SpecSan: the sanitizer alone

MaxParts == 3

\* What a text is made of: single characters, and the markers of the escape
\* sequences the sanitizer looks for.
Pieces ==
  { << "a" >>, << SP >>, << GT >>, << "1" >>, << SEMI >>, << "c" >>, << "R" >>,
    << ESC >>, << RBR >>, << BEL >>, << BSL >>, << LBR >>, << QM >>,
    << ESC, RBR >>, << ESC, BSL >>, << ESC, LBR, QM >> }

RECURSIVE TextsOf(_)
TextsOf(n) ==
  IF n = 0 THEN { << >> }
  ELSE LET shorter == TextsOf(n - 1)
       IN shorter \cup {t \o p : t \in shorter, p \in Pieces}

\* A text arrives cut into two chunks at any position.
InitSanitizer ==
  /\ InitPane
  /\ InitCache
  /\ InitPty
  /\ InitFocus
  /\ InitResize
  /\ sanText \in TextsOf(MaxParts)
  /\ sanCut \in 0..Len(sanText)
  /\ sanPc = 0
  /\ sanOut = << >>
  /\ sanPending = << >>

\* One call of sanitizeEchoArtifacts on the next of the two chunks.
SanitizeChunk ==
  /\ sanPc < 2
  /\ LET chunk == IF sanPc = 0 THEN Take(sanText, sanCut) ELSE Slice(sanText, sanCut)
         r == sanitizeEchoArtifacts(sanPending, chunk)
     IN /\ sanOut' = Append(sanOut, r.text)
        /\ sanPending' = r.pending
  /\ sanPc' = sanPc + 1
  /\ UNCHANGED << sanText, sanCut, terminalSnapshots, paneVars, ev, nPty, cacheVars,
                  ptyVars, focusVars, detail, resizeVars >>

NextSan == SanitizeChunk

SpecSan == InitSanitizer /\ [][NextSan]_vars

\* The text begins with a complete OSC sequence: ESC ] ... BEL or ESC ] ... ESC \.
BeginsWithOsc(t) == IsOscStart(t, 1) /\ TermEnd(t, 3) # 0

\* The length of that sequence.
OscLength(t) == TermEnd(t, 3) - 1

\* C10: a complete OSC sequence followed by text, cut anywhere inside the
\* sequence, renders nothing of the sequence, and the two returned texts
\* together are what one call returns for the uncut text.
SplitSequenceReassembly ==
  (sanPc = 2 /\ BeginsWithOsc(sanText) /\ sanCut >= 1 /\ sanCut < OscLength(sanText))
    => /\ sanOut[1] = << >>
       /\ sanOut[1] \o sanOut[2] = sanitizeEchoArtifacts(<< >>, sanText).text

\* A number list: digits, with single semicolons between digit runs.
IsNumList(u) ==
  /\ u # << >>
  /\ IsDigit(u[1]) /\ IsDigit(u[Len(u)])
  /\ \A k \in 1..Len(u) : IsDigit(u[k]) \/ u[k] = SEMI
  /\ \A k \in 1..(Len(u) - 1) : ~(u[k] = SEMI /\ u[k + 1] = SEMI)

\* The text holds a bare fragment in the anchored position: a number list and
\* c or R, after the start of the text, a space or ">", before the end of the
\* text or a space.
HasBareFragment(t) ==
  \E i \in 1..Len(t), j \in 1..Len(t) :
    /\ i < j
    /\ IsNumList(SubSeq(t, i, j - 1))
    /\ t[j] \in {"c", "R"}
    /\ (i = 1 \/ IsSpace(t[i - 1]) \/ t[i - 1] = GT)
    /\ (j = Len(t) \/ IsSpace(t[j + 1]))

\* A text without an escape character and without an anchored bare fragment.
IsCleanText(t) == (\A k \in 1..Len(t) : t[k] # ESC) /\ ~HasBareFragment(t)

\* C11: with an empty pending buffer, a chunk without an escape character and
\* without an anchored bare fragment is returned unchanged, and the pending
\* buffer stays empty.
CleanTextUnchanged ==
  (sanPc = 1 /\ IsCleanText(Take(sanText, sanCut)))
    => sanOut[1] = Take(sanText, sanCut) /\ sanPending = << >>

\* A clean chunk that holds digits and "c", but not in the anchored position,
\* came back as it was.
CleanTextUnchangedWitness ==
  /\ sanPc = 1
  /\ Take(sanText, sanCut) = << "a", "1", "c" >>
  /\ sanOut = << << "a", "1", "c" >> >>
  /\ sanPending = << >>

\* C12: a call never adds characters: the text returned and the pending buffer
\* after the call are together no longer than the pending buffer before the
\* call and the chunk.
NeverAddsCharacters ==
  [][sanPc' = sanPc + 1 =>
       LET chunk == IF sanPc = 0 THEN Take(sanText, sanCut) ELSE Slice(sanText, sanCut)
       IN Len(sanOut'[sanPc']) + Len(sanPending')
            <= Len(sanPending) + Len(chunk)]_vars

\* A call that started with a non-empty pending buffer, completed the
\* sequence and returned the text after it.
NeverAddsCharactersWitness ==
  /\ sanPc = 2
  /\ sanText = << ESC, RBR, BEL, "a" >>
  /\ sanCut = 2
  /\ sanOut = << << >>, << "a" >> >>
  /\ sanPending = << >>

\* The text holds an OSC start, or a complete Device Attributes response.
HasOscStart(t) == \E k \in 1..Len(t) : IsOscStart(t, k)
HasDeviceAttributes(t) == \E k \in 1..Len(t) : DAEnd(t, k) # 0

\* C23: every text a call returned is fully cleaned: a further call with an
\* empty pending buffer returns it unchanged and leaves the buffer empty, and
\* the text holds no OSC start, no complete Device Attributes response and no
\* anchored bare fragment.
ReturnedTextIsClean ==
  \A k \in 1..Len(sanOut) :
    /\ sanitizeEchoArtifacts(<< >>, sanOut[k]) = [text |-> sanOut[k], pending |-> << >>]
    /\ ~HasOscStart(sanOut[k])
    /\ ~HasDeviceAttributes(sanOut[k])
    /\ ~HasBareFragment(sanOut[k])

\* ------------------------------------------------------------------ SpecPty: one kept-alive session and its PTY

MaxOut == 3

\* The PTY's output: every character it puts out is a different one, so a
\* character seen twice in the sink is one piece of output rendered twice.
OutputStream == << "p", "q", "r", "s", "u", "v" >>

PtySession == "t1"

PtyIdle == UNCHANGED << nPty, cacheVars, sanVars, focusVars, detail, resizeVars >>

\* The pane is mounted with keepAlive; the history it will be sent is the
\* output up to this moment.
PtyMount ==
  /\ Mount(PtySession, TRUE, TRUE)
  /\ attachAt' = ptyOut
  /\ histDue' = TRUE
  /\ UNCHANGED ptyOut
  /\ PtyIdle

\* The PTY puts out its next character: a mounted pane receives it as a
\* live-data chunk, otherwise only the host's history keeps it.
PtyEmit ==
  /\ ptyOut < MaxOut
  /\ ptyOut < Len(OutputStream)
  /\ ptyOut' = ptyOut + 1
  /\ IF "data" \in subs[PtySession]
     THEN DataHandler(PtySession, << OutputStream[ptyOut + 1] >>)
     ELSE UNCHANGED << terminalSnapshots, paneVars, ev >>
  /\ UNCHANGED << attachAt, histDue >>
  /\ PtyIdle

\* The host delivers the history of the mount, once, in one chunk.
PtyHistory ==
  /\ histDue
  /\ attachAt > 0
  /\ HistoryHandler(PtySession, Take(OutputStream, attachAt))
  /\ histDue' = FALSE
  /\ UNCHANGED << ptyOut, attachAt >>
  /\ PtyIdle

PtyTimer == TimerHandler(PtySession) /\ UNCHANGED ptyVars /\ PtyIdle

PtyCleanup == CleanupEffect(PtySession) /\ UNCHANGED ptyVars /\ PtyIdle

NextPty == PtyMount \/ PtyEmit \/ PtyHistory \/ PtyTimer \/ PtyCleanup

SpecPty == Init /\ [][NextPty]_vars

\* How often character c occurs in text t.
Occurrences(t, c) == Cardinality({i \in 1..Len(t) : t[i] = c})

\* C3: no piece of the PTY's output is written to the session's sink more
\* than once.
NoDuplicatedRendering ==
  \A i \in 1..Len(OutputStream) :
    Occurrences(Concat(sink[PtySession]), OutputStream[i]) <= 1

\* ------------------------------------------------------------------ SpecFocus: the focus registry alone

FocusIdle ==
  UNCHANGED << terminalSnapshots, paneVars, ev, nPty, cacheVars, sanVars, ptyVars,
               detail, resizeVars >>

Registered(reg) == {reg[k].id : k \in 1..Len(reg)}

\* The ids of `order` that are still in `present`, in the same order.
KeepPresent(order, present) ==
  LET isPresent(i) == i \in present IN SelectSeq(order, isPresent)

\* The ids of `order` without id.
Without(order, id) ==
  LET other(i) == i # id IN SelectSeq(order, other)

\* The call registerTerminalFocus(id, handler).
RegisterCall(id, handler) ==
  /\ registry' = registerTerminalFocus(registry, id, handler)
  /\ IF id # NoId /\ IsFunction(handler)
     THEN /\ firstOrder' = IF id \in Registered(registry) THEN firstOrder
                              ELSE Append(firstOrder, id)
          /\ installOrder' = Append(Without(installOrder, id), id)
     ELSE UNCHANGED << firstOrder, installOrder >>
  /\ fev' = FocusEvent("register", id, handler, NoPredicate,
                       FocusResult(FALSE, << >>, FALSE))

\* The call unregisterTerminalFocus(id, handler?).
UnregisterCall(id, handler) ==
  /\ registry' = unregisterTerminalFocus(registry, id, handler)
  /\ firstOrder' = KeepPresent(firstOrder, Registered(registry'))
  /\ installOrder' = KeepPresent(installOrder, Registered(registry'))
  /\ fev' = FocusEvent("unregister", id, handler, NoPredicate,
                       FocusResult(FALSE, << >>, FALSE))

\* The call focusTerminalById(id).
FocusCall(id) ==
  /\ fev' = FocusEvent("focus", id, NoHandler, NoPredicate,
                       focusTerminalById(registry, id))
  /\ UNCHANGED << registry, firstOrder, installOrder >>

\* registerTerminalFocus(id, handler), called with any id and handler.
FocusRegister ==
  \E id \in FocusIds \cup {NoId}, handler \in FocusHandlers \cup {NotAFunction} :
    RegisterCall(id, handler) /\ FocusIdle

\* unregisterTerminalFocus(id, handler?), the handler given or omitted.
FocusUnregister ==
  \E id \in FocusIds \cup {NoId}, handler \in FocusHandlers \cup {NoHandler} :
    UnregisterCall(id, handler) /\ FocusIdle

\* focusTerminalById(id)
FocusById ==
  \E id \in FocusIds : FocusCall(id) /\ FocusIdle

\* focusTerminalMatching(predicate)
FocusMatching ==
  \E pred \in Predicates :
    /\ fev' = FocusEvent("focusMatching", NoId, NoHandler, pred,
                         focusTerminalMatching(registry, pred))
    /\ UNCHANGED << registry, firstOrder, installOrder >>
    /\ FocusIdle

NextFocus == FocusRegister \/ FocusUnregister \/ FocusById \/ FocusMatching

SpecFocus == Init /\ [][NextFocus]_vars

\* C13: an id has at most one entry; a register leaves its handler as the
\* id's entry; unregister(id, h) removes the entry when the registered handler
\* is h and changes nothing otherwise; unregister(id) removes the entry.
RegistryOverwrite ==
  [][/\ \A j, k \in 1..Len(registry') : registry'[j].id = registry'[k].id => j = k
     /\ (fev'.op = "register" /\ fev'.id # NoId /\ IsFunction(fev'.handler))
          => registryGet(registry', fev'.id) = fev'.handler
     /\ (fev'.op = "unregister" /\ fev'.id # NoId)
          => IF fev'.handler = NoHandler \/ registryGet(registry, fev'.id) = fev'.handler
             THEN registryGet(registry', fev'.id) = NoHandler
             ELSE registry' = registry]_vars

\* An unregister that passed a handler other than the registered one left the
\* registered one in place.
RegistryOverwriteWitness ==
  /\ fev.op = "unregister"
  /\ fev.id = "t1"
  /\ fev.handler = "focusA"
  /\ registryGet(registry, "t1") = "focusB"

\* No predicate outcome and no registered handler is a failure.
NothingFails(pred) ==
  \A k \in 1..Len(registry) :
    pred[registry[k].id] # "throws" /\ ~HandlerThrows(registry[k].handler)

\* focusTerminalMatching invoked exactly the handler of the first id of
\* `order` that the predicate accepts and returned true, or found none,
\* invoked nothing and returned false.
FirstMatchIn(order) ==
  LET matching == {k \in 1..Len(order) : fev.pred[order[k]] = "yes"}
  IN IF matching = {}
     THEN fev.result.ret = FALSE /\ fev.result.invoked = << >>
     ELSE LET first == CHOOSE k \in matching : \A j \in matching : k <= j
          IN /\ fev.result.ret = TRUE
             /\ fev.result.invoked
                  = << [id |-> order[first], handler |-> registryGet(registry, order[first])] >>

\* C14 as amended: when nothing fails, the scan follows the order in which
\* the registered ids were added to the registry (an overwrite keeps the
\* place of the id) and invokes exactly the first matching entry's handler.
FocusMatchingFirstAdded ==
  (fev.op = "focusMatching" /\ NothingFails(fev.pred)) => FirstMatchIn(firstOrder)

\* After an overwrite, with two matching entries, the earlier added one was
\* invoked.
FocusMatchingFirstAddedWitness ==
  /\ fev.op = "focusMatching"
  /\ NothingFails(fev.pred)
  /\ firstOrder = << "t1", "t2" >>
  /\ installOrder = << "t2", "t1" >>
  /\ fev.pred["t1"] = "yes" /\ fev.pred["t2"] = "yes"
  /\ fev.result.ret = TRUE
  /\ Len(fev.result.invoked) = 1 /\ fev.result.invoked[1].id = "t1"

\* C14: when nothing fails, the scan follows the order of the register calls
\* that installed the current handlers and invokes exactly the first matching
\* entry's handler.
FocusMatchingInstallOrder ==
  (fev.op = "focusMatching" /\ NothingFails(fev.pred)) => FirstMatchIn(installOrder)

\* The last focus call let no exception out and returned true exactly when a
\* handler it was to invoke completed.
FocusContained ==
  /\ fev.op = "focus" =>
       /\ ~fev.result.escaped
       /\ fev.result.ret
            = (/\ registryGet(registry, fev.id) # NoHandler
               /\ ~HandlerThrows(registryGet(registry, fev.id)))
  /\ fev.op = "focusMatching" =>
       /\ ~fev.result.escaped
       /\ fev.result.ret
            = (\E k \in 1..Len(registry) :
                 /\ fev.pred[registry[k].id] = "yes"
                 /\ ~HandlerThrows(registry[k].handler))

\* C15: focus(id) and focusMatching let no failure out, return true exactly
\* when a (matching) handler completed, also after failing entries, and leave
\* the registry as it was.
FocusFailuresContained ==
  [][fev'.op \in {"focus", "focusMatching"} => (registry' = registry /\ FocusContained')]_vars

\* A scan met a failing predicate and a failing handler and went on to a
\* handler that completed.
FocusFailuresContainedWitness ==
  /\ fev.op = "focusMatching"
  /\ Len(registry) = 3
  /\ fev.pred[registry[1].id] = "throws"
  /\ fev.pred[registry[2].id] = "yes" /\ HandlerThrows(registry[2].handler)
  /\ fev.pred[registry[3].id] = "yes"
  /\ fev.result.ret = TRUE
  /\ fev.result.invoked = << registry[2], registry[3] >>

\* ------------------------------------------------------------------ SpecResize: one pane and its container

ResizeSession == "t1"

\* The widths and heights the container takes, in pixels: below the minimum,
\* two widths of the default 80 columns, two widths of 100 columns; below the
\* minimum, the default 24 rows, 30 rows.
Widths == {100, 720, 725, 900, 905}
Heights == {100, 408, 510}

ResizeIdle == UNCHANGED << nPty, cacheVars, sanVars, ptyVars, focusVars, detail >>

\* The effect runs: the Terminal is created and the PTY started with the
\* cols and rows props, and the observer is attached.
ResizeMount ==
  /\ Mount(ResizeSession, FALSE, TRUE)
  /\ termSize' = TermSize(cols, rows)
  /\ ptySize' = TermSize(cols, rows)
  /\ observed' = NotObserved
  /\ issued' = FALSE
  /\ sizeBefore' = TermSize(cols, rows)
  /\ ResizeIdle

\* The observer reports a new container size and handleResize runs.
ContainerResized ==
  \E width \in Widths, height \in Heights :
    /\ mounted[ResizeSession]
    /\ observed # [width |-> width, height |-> height]
    /\ LET r == handleResize(termSize, width, height)
       IN /\ termSize' = r.size
          /\ ptySize' = IF r.issued THEN r.size ELSE ptySize
          /\ issued' = r.issued
    /\ sizeBefore' = termSize
    /\ observed' = [width |-> width, height |-> height]
    /\ ev' = Event("resize", ResizeSession, NoText, "none")
    /\ UNCHANGED << terminalSnapshots, paneVars >>
    /\ ResizeIdle

\* The effect's cleanup: the observer is disconnected, the Terminal disposed.
ResizeCleanup ==
  /\ CleanupEffect(ResizeSession)
  /\ UNCHANGED resizeVars
  /\ ResizeIdle

NextResize == ResizeMount \/ ContainerResized \/ ResizeCleanup

SpecResize == Init /\ [][NextResize]_vars

\* C18: handleResize issues a resize exactly when the size computed from the
\* container differs from the size the Terminal had, so that the Terminal
\* and the PTY have the size computed from the container size last reported.
ResizeOnlyOnRealChange ==
  (mounted[ResizeSession] /\ observed # NotObserved) =>
    /\ issued = (ComputedSize(observed.width, observed.height) # sizeBefore)
    /\ termSize = ComputedSize(observed.width, observed.height)
    /\ ptySize = termSize

\* ------------------------------------------------------------------ SpecShared: two sessions on the shared maps

MaxSharedOps == 3

\* The texts the sessions append: a short one, and one of the size of the
\* cap, after which the next append evicts.
SharedTexts == { << "a" >>, << BLK, BLK >> }

\* The handlers the sessions register.
SharedHandlers == {"focusA", "focusFails"}

SharedIdle == UNCHANGED << paneVars, nPty, sanVars, ptyVars, detail, resizeVars >>

CacheOp(op, id, text) ==
  /\ nOps < MaxSharedOps
  /\ nOps' = nOps + 1
  /\ ev' = Event(op, id, text, "none")
  /\ UNCHANGED << appendedSince, lastAppended, focusVars >>
  /\ SharedIdle

\* A handler of session id appends a text.
SharedAppend ==
  \E id \in Ids, text \in SharedTexts :
    /\ terminalSnapshots' = appendSnapshotChunk(terminalSnapshots, id, text)
    /\ CacheOp("append", id, text)

\* The timer or a history handler of session id reads the cached text.
SharedReadAll ==
  \E id \in Ids :
    /\ UNCHANGED terminalSnapshots
    /\ CacheOp("readAll", id, getSnapshotText(terminalSnapshots, id))

\* clearSnapshot(id)
SharedClear ==
  \E id \in Ids :
    /\ terminalSnapshots' = clearSnapshot(terminalSnapshots, id)
    /\ CacheOp("clear", id, NoText)

\* The cleanup of a pane of session id, kept alive or not.
SharedTeardown ==
  \E id \in Ids, ka \in BOOLEAN :
    /\ terminalSnapshots' = CleanupSnapshots(terminalSnapshots, id, ka)
    /\ CacheOp("teardown", id, NoText)

RegistryOp == UNCHANGED << terminalSnapshots, ev, cacheVars >> /\ SharedIdle

SharedRegister ==
  \E id \in Ids, handler \in SharedHandlers : RegisterCall(id, handler) /\ RegistryOp

SharedUnregister ==
  \E id \in Ids, handler \in SharedHandlers \cup {NoHandler} :
    UnregisterCall(id, handler) /\ RegistryOp

SharedFocus ==
  \E id \in Ids : FocusCall(id) /\ RegistryOp

NextShared ==
  \/ SharedAppend
  \/ SharedReadAll
  \/ SharedClear
  \/ SharedTeardown
  \/ SharedRegister
  \/ SharedUnregister
  \/ SharedFocus

SpecShared == Init /\ [][NextShared]_vars

\* C20: a step is an operation of one id on the snapshot map (ev') or on the
\* focus registry (fev'); it leaves the snapshot entry of every other id,
\* fragments and byte total, and the registered handler of every other id
\* as they were.
NoCrossSessionInterference ==
  [][\A B \in Ids :
       /\ B # ev'.id => terminalSnapshots'[B] = terminalSnapshots[B]
       /\ B # fev'.id => registryGet(registry', B) = registryGet(registry, B)]_vars

\* Session t1 was torn down and unregistered while t2 kept its two cached
\* fragments and its handler.
NoCrossSessionInterferenceWitness ==
  /\ ev.op = "teardown" /\ ev.id = "t1"
  /\ terminalSnapshots["t1"] = NoEntry
  /\ terminalSnapshots["t2"] # NoEntry /\ Len(terminalSnapshots["t2"].chunks) = 2
  /\ fev.op = "unregister" /\ fev.id = "t1"
  /\ registryGet(registry, "t1") = NoHandler
  /\ installOrder = << "t2" >>

====
